---- MODULE Spec2Model ----
(***************************************************************************)
(* A model of logger.py: the WootingPython ctypes binding (set_excluded_   *)
(* keys, read_key, read_full_buffer, wait_for_key) and the __main__        *)
(* recording script that waits for <Space>, then writes one CSV row per    *)
(* poll until a frame contains <Esc>.                                      *)
(*                                                                         *)
(* Four specifications share the state and the operators:                  *)
(*   Spec          the __main__ script, from its first statement to its    *)
(*                 last;                                                   *)
(*   SpecAPI       a constructed WootingPython instance driven by any      *)
(*                 sequence of set_excluded_keys, read_key and             *)
(*                 read_full_buffer calls;                                 *)
(*   SpecSessions  the script run again and again on one file system while *)
(*                 the wall clock advances;                                *)
(*   SpecCalls     the script, and a caller that constructs an instance    *)
(*                 with any buffer size and calls set_excluded_keys,       *)
(*                 read_key and wait_for_key, each call entered and then   *)
(*                 run.                                                    *)
(*                                                                         *)
(* Analog values are c_float; the model writes them in tenths (9 is the    *)
(* float the device stores for 0.9).  ctypes arrays are 0-based, TLA+      *)
(* sequences 1-based: code_buffer[x] of the source is code_buffer[x + 1].  *)
(* The first CSV field, str(time.time()), is not carried by the rows of    *)
(* the model.                                                              *)
(***************************************************************************)
EXTENDS Integers, Sequences, FiniteSets, TLC

SCAN_CODE_ESC == 41
SCAN_CODE_SPACE == 44

\* Bounds of the model.
MaxBufferSize == 2
DefaultBufferSize == 2
MaxRows == 2
MaxExcluded == 2

MaxClock == 1
MaxSessions == 2

\* What the device may put in a slot: the empty code 0 and the two keys the
\* script reacts to; a key at rest (0.0) or pressed (0.9).
Codes == {0, SCAN_CODE_ESC, SCAN_CODE_SPACE}
Intensities == {0, 9}

\* The codes callers put in exclusion lists: the empty code and one key (the
\* binding treats every non-zero code alike).
ExcludableCodes == {0, SCAN_CODE_SPACE}

\* Negative return codes of the SDK.
SdkErrors == {-1}

VARIABLES pc, buffer_size, code_buffer, analog_buffer, excluded, result,
          values, strip, warned, op, logfile, log, rows, logging,
          last_keys_pressed, notified, reported, iterations, start_seen,
          sdk_status, clock, logfile_name, files, sessions, stale, arg

vars == <<pc, buffer_size, code_buffer, analog_buffer, excluded, result,
          values, strip, warned, op, logfile, log, rows, logging,
          last_keys_pressed, notified, reported, iterations, start_seen,
          sdk_status, clock, logfile_name, files, sessions, stale, arg>>

\* The state a call of read_full_buffer writes.
readVars == <<code_buffer, analog_buffer, result, values, strip, warned, op>>
\* The locals and outputs of __main__.
mainVars == <<logfile, log, rows, logging, last_keys_pressed, notified,
              reported, iterations, start_seen>>
\* The machine the script runs on: its clock (in seconds), the log files on
\* its disk (file name -> rows) and the number of runs of the script so far.
envVars == <<clock, files, sessions>>

----------------------------------------------------------------------------
\* Helpers

Min(a, b) == IF a < b THEN a ELSE b

Zeros(n) == [i \in 1..n |-> 0]

ToSet(s) == {s[i] : i \in 1..Len(s)}

SeqsUpTo(S, n) == UNION {[1..k -> S] : k \in 0..n}

\* create_string_buffer(buffer_size * sizeof(..)): a zero-filled array.
create_string_buffer(n) == Zeros(n)

\* memset(buf, 0, n): n bytes, not n elements, so (with two bytes or more
\* to an element) at most the first half of the elements is cleared.
memset_Bytes(buf, n) ==
    [i \in 1..Len(buf) |-> IF i <= n \div 2 THEN 0 ELSE buf[i]]

\* memset(buf, 0, n * sizeof(..)): the first n elements become 0.
memset(buf, n) == [i \in 1..Len(buf) |-> IF i <= n THEN 0 ELSE buf[i]]

\* wooting_analog_read_full_buffer writes the slots it reports at the start
\* of the buffer and leaves the rest as it found it.
SdkWrite(buf, w) == [i \in 1..Len(buf) |-> IF i <= Len(w) THEN w[i] ELSE buf[i]]

\* Line 136 without its strip test.
Keep_NoStrip(cb, x, excl, s) == cb[x + 1] \notin excl

\* Line 136 without its exclusion test.
Keep_NoExclude(cb, x, excl, s) == s = FALSE \/ cb[x + 1] > 0

\* The condition of line 136 for the slot at index x (0-based).
Keep(cb, x, excl, s) == (s = FALSE \/ cb[x + 1] > 0) /\ cb[x + 1] \notin excl

\* The loop over range(n - 1): the last reported slot is never looked at.
RECURSIVE Collect_OffByOne(_, _, _, _, _, _)
Collect_OffByOne(x, n, cb, ab, excl, s) ==
    IF x >= n - 1 THEN <<>>
    ELSE (IF (s = FALSE \/ cb[x + 1] > 0) /\ cb[x + 1] \notin excl
          THEN << <<cb[x + 1], ab[x + 1]>> >> ELSE <<>>)
         \o Collect_OffByOne(x + 1, n, cb, ab, excl, s)

\* The loop with values.insert(0, ..) in place of values.append(..).
RECURSIVE Collect_Reversed(_, _, _, _, _, _)
Collect_Reversed(x, n, cb, ab, excl, s) ==
    IF x >= n THEN <<>>
    ELSE Collect_Reversed(x + 1, n, cb, ab, excl, s)
         \o (IF (s = FALSE \/ cb[x + 1] > 0) /\ cb[x + 1] \notin excl
             THEN << <<cb[x + 1], ab[x + 1]>> >> ELSE <<>>)

\* The loop of lines 133-139: for x in range(n), append the kept slots.
RECURSIVE Collect(_, _, _, _, _, _)
Collect(x, n, cb, ab, excl, s) ==
    IF x >= n THEN <<>>
    ELSE (IF Keep(cb, x, excl, s) THEN << <<cb[x + 1], ab[x + 1]>> >> ELSE <<>>)
         \o Collect(x + 1, n, cb, ab, excl, s)

\* Line 129 with the bound off by one.
IsError_OffByOne(n) == n < -1

\* The test of line 129.
IsError(n) == n < 0

\* Whether a frame holds a slot with the given code (the scans of lines
\* 153-156 and 193-195).
HasCode(frame, code) == \E i \in 1..Len(frame) : frame[i][1] = code

----------------------------------------------------------------------------
\* WootingPython

\* read_full_buffer with the list kept on the instance and never emptied.
read_full_buffer_KeepValues(s) ==
    \E n \in (0..buffer_size) \cup SdkErrors :
    \E wc \in [1..(IF n < 0 THEN 0 ELSE n) -> Codes],
       wa \in [1..(IF n < 0 THEN 0 ELSE n) -> Intensities] :
        /\ code_buffer' = SdkWrite(memset(code_buffer, buffer_size), wc)
        /\ analog_buffer' = SdkWrite(memset(analog_buffer, buffer_size), wa)
        /\ result' = n
        /\ strip' = s
        /\ warned' = IsError(n)
        /\ values' = IF IsError(n) THEN <<>>
                     ELSE values \o Collect(0, n, code_buffer', analog_buffer',
                                            excluded, s)
        /\ op' = "read_full_buffer"

\* read_full_buffer(strip): clear both buffers, call the SDK, decode.
\* The SDK reports n slots (0 <= n <= buffer_size) and writes them, or
\* reports an error and writes nothing.
read_full_buffer(s) ==
    \E n \in (0..buffer_size) \cup SdkErrors :
    \E wc \in [1..(IF n < 0 THEN 0 ELSE n) -> Codes],
       wa \in [1..(IF n < 0 THEN 0 ELSE n) -> Intensities] :
        /\ code_buffer' = SdkWrite(memset(code_buffer, buffer_size), wc)
        /\ analog_buffer' = SdkWrite(memset(analog_buffer, buffer_size), wa)
        /\ result' = n
        /\ strip' = s
        /\ warned' = IsError(n)
        /\ values' = IF IsError(n) THEN <<>>
                     ELSE Collect(0, n, code_buffer', analog_buffer', excluded, s)
        /\ op' = "read_full_buffer"

\* self._excluded |= set(excluded): the codes added to the set.
set_excluded_keys_Update(old, e) == old \cup ToSet(e)

\* Line 82: the new value of self._excluded, given the old one and the list.
set_excluded_keys(old, e) == ToSet(e)

\* set_excluded_keys(excluded): self._excluded = set(excluded).
SetExcludedKeys ==
    /\ pc = "api"
    /\ \E e \in SeqsUpTo(ExcludableCodes, MaxExcluded) :
          excluded' = set_excluded_keys(excluded, e)
    /\ op' = "set_excluded_keys"
    /\ UNCHANGED <<pc, buffer_size, code_buffer, analog_buffer, result, values,
                   strip, warned>>
    /\ UNCHANGED mainVars
    /\ UNCHANGED envVars
    /\ UNCHANGED <<sdk_status, logfile_name, stale, arg>>

\* read_key(code): one SDK query, its value handed to the caller; nothing of
\* the instance changes.
ReadKey ==
    /\ pc = "api"
    /\ UNCHANGED vars

\* A call of read_full_buffer(strip) on the instance.
ReadFullBuffer ==
    /\ pc = "api"
    /\ \E s \in BOOLEAN : read_full_buffer(s)
    /\ stale' = \E i \in 1..buffer_size :
                    i > result' /\ (code_buffer[i] # 0 \/ analog_buffer[i] # 0)
    /\ UNCHANGED <<pc, buffer_size, excluded>>
    /\ UNCHANGED mainVars
    /\ UNCHANGED envVars
    /\ UNCHANGED <<sdk_status, logfile_name, arg>>

----------------------------------------------------------------------------
\* __main__

\* str(n) for n >= 0, as a sequence of characters.
Digit(d) == CASE d = 0 -> "0" [] d = 1 -> "1" [] d = 2 -> "2" [] d = 3 -> "3"
              [] d = 4 -> "4" [] d = 5 -> "5" [] d = 6 -> "6" [] d = 7 -> "7"
              [] d = 8 -> "8" [] d = 9 -> "9"

RECURSIVE StrInt(_)
StrInt(n) == IF n < 10 THEN <<Digit(n)>> ELSE StrInt(n \div 10) \o <<Digit(n % 10)>>

\* str(v) of the Python float read back from a c_float holding a/10:
\* 0.0 prints as 0.0, the c_float nearest to 0.9 as 0.8999999761581421.
StrFloat(a) ==
    IF a = 0 THEN <<"0", ".", "0">>
    ELSE <<"0", ".", "8", "9", "9", "9", "9", "9", "9", "7", "6", "1", "5",
           "8", "1", "4", "2", "1">>

\* [x for key_state in key_states for x in key_state], each through str.
RECURSIVE Flatten(_)
Flatten(frame) ==
    IF frame = <<>> THEN <<>>
    ELSE <<StrInt(frame[1][1]), StrFloat(frame[1][2])>> \o Flatten(Tail(frame))

\* ''.join(items): the separator forgotten.
RECURSIVE Join_NoSep(_)
Join_NoSep(items) ==
    IF items = <<>> THEN <<>> ELSE items[1] \o Join_NoSep(Tail(items))

\* '|'.join(items)
RECURSIVE Join(_)
Join(items) ==
    IF items = <<>> THEN <<>>
    ELSE IF Len(items) = 1 THEN items[1]
    ELSE items[1] \o <<"|">> \o Join(Tail(items))

\* The row of line 206, without its time field.
Row(frame) == [key_count |-> StrInt(Len(frame)), payload |-> Join(Flatten(frame))]

\* Lines 193-195 looking at the first slot only.
StopSeen_FirstOnly(frame) == frame # <<>> /\ frame[1][1] = SCAN_CODE_ESC

\* The test of lines 193-195.
StopSeen(frame) == HasCode(frame, SCAN_CODE_ESC)

\* Lines 153-156 with the pair unpacked the wrong way round.
KeyFound_Swapped(frame, code) == \E i \in 1..Len(frame) : frame[i][2] = code

\* Lines 153-156 returning on any key.
KeyFound_AnyKey(frame, code) == frame # <<>>

\* The test of lines 153-156.
KeyFound(frame, code) == HasCode(frame, code)

\* The loop left (break) as soon as <Esc> is seen, before the row is written.
writerow_BreakFirst(l, frame) ==
    IF HasCode(frame, SCAN_CODE_ESC) THEN l ELSE Append(l, Row(frame))

\* The row written only when some key is down.
writerow_SkipEmpty(l, frame) == IF frame = <<>> THEN l ELSE Append(l, Row(frame))

\* logcsv.writerow(row) for the row of the frame: one more line in the file.
writerow(l, frame) == Append(l, Row(frame))

\* The count never advanced.
NextRows_Stuck(r) == r

\* rows += 1
NextRows(r) == r + 1

\* WootingPython('libwooting_analog_wrapper.so'): the library fails to load
\* (sys.exit), or the SDK fails to initialise (raise), or the buffers are made.
LoadFail ==
    /\ pc = "start"
    /\ pc' = "exit"
    /\ sdk_status' = "load_failed"
    /\ UNCHANGED <<buffer_size, excluded>>
    /\ UNCHANGED readVars
    /\ UNCHANGED mainVars
    /\ UNCHANGED envVars
    /\ UNCHANGED <<logfile_name, stale, arg>>

\* The negative status of the SDK noticed but not raised.
InitFail_NoRaise ==
    /\ pc = "start"
    /\ excluded' = {}
    /\ buffer_size' = DefaultBufferSize
    /\ code_buffer' = create_string_buffer(DefaultBufferSize)
    /\ analog_buffer' = create_string_buffer(DefaultBufferSize)
    /\ pc' = "get_log_name"
    /\ sdk_status' = "init_failed"
    /\ UNCHANGED <<result, values, strip, warned, op>>
    /\ UNCHANGED mainVars
    /\ UNCHANGED envVars
    /\ UNCHANGED <<logfile_name, stale, arg>>

InitFail ==
    /\ pc = "start"
    /\ excluded' = {}
    /\ pc' = "raised"
    /\ sdk_status' = "init_failed"
    /\ UNCHANGED buffer_size
    /\ UNCHANGED readVars
    /\ UNCHANGED mainVars
    /\ UNCHANGED envVars
    /\ UNCHANGED <<logfile_name, stale, arg>>

Construct ==
    /\ pc = "start"
    /\ excluded' = {}
    /\ buffer_size' = DefaultBufferSize
    /\ code_buffer' = create_string_buffer(DefaultBufferSize)
    /\ analog_buffer' = create_string_buffer(DefaultBufferSize)
    /\ pc' = "get_log_name"
    /\ sdk_status' = "ok"
    /\ UNCHANGED <<result, values, strip, warned, op>>
    /\ UNCHANGED mainVars
    /\ UNCHANGED envVars
    /\ UNCHANGED <<logfile_name, stale, arg>>

\* get_log_name(): the prefix, the clock to the second, ".csv".  Two names
\* are equal exactly when their seconds are, so the second stands for the name.
get_log_name(now) == now

\* logfile_name = get_log_name() and the two prints.
GetLogName ==
    /\ pc = "get_log_name"
    /\ logfile_name' = get_log_name(clock)
    /\ pc' = "wait_for_key"
    /\ UNCHANGED <<buffer_size, excluded>>
    /\ UNCHANGED readVars
    /\ UNCHANGED mainVars
    /\ UNCHANGED envVars
    /\ UNCHANGED <<sdk_status, stale, arg>>

\* One pass of the loop of wait_for_key(SCAN_CODE_SPACE): read, scan, return
\* or sleep and go round again.
WaitForKey ==
    /\ pc = "wait_for_key"
    /\ read_full_buffer(TRUE)
    /\ start_seen' = (start_seen \/ HasCode(values', SCAN_CODE_SPACE))
    /\ pc' = IF KeyFound(values', SCAN_CODE_SPACE) THEN "open" ELSE "wait_for_key"
    /\ UNCHANGED <<buffer_size, excluded>>
    /\ UNCHANGED <<logfile, log, rows, logging, last_keys_pressed, notified,
                   reported, iterations>>
    /\ UNCHANGED envVars
    /\ UNCHANGED <<sdk_status, logfile_name, stale, arg>>

\* open(name, 'w'): the file is created, or emptied if it is there.
open_w(fs, name) ==
    [n \in DOMAIN fs \cup {name} |-> IF n = name THEN <<>> ELSE fs[n]]

\* The file of that name now holds these rows.
write(fs, name, l) == [fs EXCEPT ![name] = l]

\* Lines 181-186: the locals, and open(logfile_name, 'w').
OpenLog ==
    /\ pc = "open"
    /\ rows' = 0
    /\ logging' = TRUE
    /\ last_keys_pressed' = -1
    /\ logfile' = "open"
    /\ log' = <<>>
    /\ files' = open_w(files, logfile_name)
    /\ pc' = "recording"
    /\ UNCHANGED <<buffer_size, excluded, notified, reported, iterations, start_seen>>
    /\ UNCHANGED readVars
    /\ UNCHANGED <<clock, sessions, sdk_status, logfile_name, stale, arg>>

\* Line 189 with the test for a rise only.
Changed_Rise(n, last) == n > last

\* The test of line 189.
Changed(n, last) == n # last

\* One pass of the loop of lines 187-209.
Record ==
    /\ pc = "recording"
    /\ logging
    /\ rows < MaxRows
    /\ read_full_buffer(TRUE)
    /\ notified' = Changed(Len(values'), last_keys_pressed)
    /\ last_keys_pressed' = Len(values')
    /\ logging' = ~StopSeen(values')
    /\ log' = writerow(log, values')
    /\ rows' = NextRows(rows)
    /\ iterations' = iterations + 1
    /\ files' = write(files, logfile_name, log')
    /\ UNCHANGED <<pc, buffer_size, excluded, logfile, reported, start_seen>>
    /\ UNCHANGED <<clock, sessions, sdk_status, logfile_name, stale, arg>>

\* Line 211 one level deeper, inside the while loop.
Report_InLoop ==
    /\ pc = "recording"
    /\ reported' = rows
    /\ pc' = "close"
    /\ UNCHANGED <<buffer_size, excluded, logfile, log, rows, logging,
                   last_keys_pressed, notified, iterations, start_seen>>
    /\ UNCHANGED readVars
    /\ UNCHANGED envVars
    /\ UNCHANGED <<sdk_status, logfile_name, stale, arg>>

\* Line 211, reached when the loop condition fails; still inside the with.
Report ==
    /\ pc = "recording"
    /\ ~logging
    /\ reported' = rows
    /\ pc' = "close"
    /\ UNCHANGED <<buffer_size, excluded, logfile, log, rows, logging,
                   last_keys_pressed, notified, iterations, start_seen>>
    /\ UNCHANGED readVars
    /\ UNCHANGED envVars
    /\ UNCHANGED <<sdk_status, logfile_name, stale, arg>>

\* The end of the with block closes the file.
CloseLog ==
    /\ pc = "close"
    /\ logfile' = "closed"
    /\ pc' = "done"
    /\ UNCHANGED <<buffer_size, excluded, log, rows, logging, last_keys_pressed,
                   notified, reported, iterations, start_seen>>
    /\ UNCHANGED readVars
    /\ UNCHANGED envVars
    /\ UNCHANGED <<sdk_status, logfile_name, stale, arg>>

----------------------------------------------------------------------------
\* Specifications

InitCommon ==
    /\ excluded = {}
    /\ result = 0
    /\ values = <<>>
    /\ strip = TRUE
    /\ warned = FALSE
    /\ op = "none"
    /\ logfile = "unopened"
    /\ log = <<>>
    /\ rows = 0
    /\ logging = TRUE
    /\ last_keys_pressed = -1
    /\ notified = FALSE
    /\ reported = -1
    /\ iterations = 0
    /\ start_seen = FALSE
    /\ logfile_name = -1
    /\ stale = FALSE
    /\ arg = <<>>

\* The script before its first statement.
Init ==
    /\ pc = "start"
    /\ buffer_size = 0
    /\ code_buffer = <<>>
    /\ analog_buffer = <<>>
    /\ sdk_status = "unloaded"
    /\ clock = 0
    /\ files = <<>>
    /\ sessions = 1
    /\ InitCommon

Next ==
    \/ LoadFail
    \/ InitFail
    \/ Construct
    \/ GetLogName
    \/ WaitForKey
    \/ OpenLog
    \/ Record
    \/ Report
    \/ CloseLog

Spec == Init /\ [][Next]_vars

\* A second of the clock passes.
Tick ==
    /\ clock < MaxClock
    /\ clock' = clock + 1
    /\ UNCHANGED <<pc, buffer_size, excluded>>
    /\ UNCHANGED readVars
    /\ UNCHANGED mainVars
    /\ UNCHANGED <<files, sessions, sdk_status, logfile_name, stale, arg>>

\* The script has ended and is run again: a new process on the same disk.
Restart ==
    /\ pc \in {"done", "exit", "raised"}
    /\ sessions < MaxSessions
    /\ sessions' = sessions + 1
    /\ pc' = "start"
    /\ buffer_size' = 0
    /\ code_buffer' = <<>>
    /\ analog_buffer' = <<>>
    /\ sdk_status' = "unloaded"
    /\ excluded' = {}
    /\ result' = 0
    /\ values' = <<>>
    /\ strip' = TRUE
    /\ warned' = FALSE
    /\ op' = "none"
    /\ logfile' = "unopened"
    /\ log' = <<>>
    /\ rows' = 0
    /\ logging' = TRUE
    /\ last_keys_pressed' = -1
    /\ notified' = FALSE
    /\ reported' = -1
    /\ iterations' = 0
    /\ start_seen' = FALSE
    /\ logfile_name' = -1
    /\ UNCHANGED <<clock, files, stale, arg>>

\* Runs of the script one after the other, the clock running.
NextSessions ==
    \/ Next
    \/ Tick
    \/ Restart

SpecSessions == Init /\ [][NextSessions]_vars

\* The calls of a caller of the class, each begun with its argument (arg
\* holds it while the call runs) and then run.

\* Lines 67-70 with the size held to at least 1.
NewBufferSize_Clamped(n) == IF n < 1 THEN 1 ELSE n

\* Line 67: self.buffer_size = buffer_size.
NewBufferSize(n) == n

\* WootingPython(path, buffer_size) where the library loads and the SDK
\* initialises: create_string_buffer refuses a negative size (ValueError).
New ==
    /\ pc = "new"
    /\ excluded' = {}
    /\ sdk_status' = "ok"
    /\ buffer_size' = NewBufferSize(arg[1])
    /\ IF buffer_size' < 0
       THEN /\ pc' = "raised"
            /\ UNCHANGED <<code_buffer, analog_buffer>>
       ELSE /\ pc' = "api"
            /\ code_buffer' = create_string_buffer(buffer_size')
            /\ analog_buffer' = create_string_buffer(buffer_size')
    /\ arg' = <<>>
    /\ UNCHANGED <<result, values, strip, warned, op>>
    /\ UNCHANGED mainVars
    /\ UNCHANGED envVars
    /\ UNCHANGED <<logfile_name, stale>>

\* set_excluded_keys(e) is called.
CallSetExcludedKeys ==
    /\ pc = "api"
    /\ \E e \in SeqsUpTo(ExcludableCodes, MaxExcluded) : arg' = e
    /\ pc' = "set_excluded_keys"
    /\ UNCHANGED <<buffer_size, excluded>>
    /\ UNCHANGED readVars
    /\ UNCHANGED mainVars
    /\ UNCHANGED envVars
    /\ UNCHANGED <<sdk_status, logfile_name, stale>>

\* Line 82 runs and the call returns.
RunSetExcludedKeys ==
    /\ pc = "set_excluded_keys"
    /\ excluded' = set_excluded_keys(excluded, arg)
    /\ op' = "set_excluded_keys"
    /\ pc' = "api"
    /\ arg' = <<>>
    /\ UNCHANGED <<buffer_size, code_buffer, analog_buffer, result, values,
                   strip, warned>>
    /\ UNCHANGED mainVars
    /\ UNCHANGED envVars
    /\ UNCHANGED <<sdk_status, logfile_name, stale>>

\* wait_for_key(code) is called.
CallWaitForKey ==
    /\ pc = "api"
    /\ \E c \in Codes : arg' = <<c>>
    /\ pc' = "wait_for_key_api"
    /\ UNCHANGED <<buffer_size, excluded>>
    /\ UNCHANGED readVars
    /\ UNCHANGED mainVars
    /\ UNCHANGED envVars
    /\ UNCHANGED <<sdk_status, logfile_name, stale>>

\* One pass of the loop of wait_for_key(code): read, scan, return or sleep
\* and go round again.
WaitPass ==
    /\ pc = "wait_for_key_api"
    /\ read_full_buffer(TRUE)
    /\ IF KeyFound(values', arg[1])
       THEN pc' = "api" /\ arg' = <<>>
       ELSE UNCHANGED <<pc, arg>>
    /\ UNCHANGED <<buffer_size, excluded>>
    /\ UNCHANGED mainVars
    /\ UNCHANGED envVars
    /\ UNCHANGED <<sdk_status, logfile_name, stale>>

\* The constructor called with a buffer size.
InitNew ==
    /\ pc = "new"
    /\ arg \in {<<n>> : n \in (-1)..MaxBufferSize}
    /\ buffer_size = 0
    /\ code_buffer = <<>>
    /\ analog_buffer = <<>>
    /\ sdk_status = "unloaded"
    /\ clock = 0
    /\ files = <<>>
    /\ sessions = 1
    /\ excluded = {}
    /\ result = 0
    /\ values = <<>>
    /\ strip = TRUE
    /\ warned = FALSE
    /\ op = "none"
    /\ logfile = "unopened"
    /\ log = <<>>
    /\ rows = 0
    /\ logging = TRUE
    /\ last_keys_pressed = -1
    /\ notified = FALSE
    /\ reported = -1
    /\ iterations = 0
    /\ start_seen = FALSE
    /\ logfile_name = -1
    /\ stale = FALSE

\* The script, or a caller of the class that constructs an instance, sets
\* exclusion lists, reads single keys and waits for keys (every buffer read
\* of such a caller is one made by wait_for_key).
InitCalls == Init \/ InitNew

NextCalls ==
    \/ Next
    \/ New
    \/ CallSetExcludedKeys
    \/ RunSetExcludedKeys
    \/ ReadKey
    \/ CallWaitForKey
    \/ WaitPass

SpecCalls == InitCalls /\ [][NextCalls]_vars

\* An instance after WootingPython(path, buffer_size) returned.
InitAPI ==
    /\ pc = "api"
    /\ buffer_size \in 1..MaxBufferSize
    /\ code_buffer = create_string_buffer(buffer_size)
    /\ analog_buffer = create_string_buffer(buffer_size)
    /\ sdk_status = "ok"
    /\ clock = 0
    /\ files = <<>>
    /\ sessions = 1
    /\ InitCommon

NextAPI ==
    \/ SetExcludedKeys
    \/ ReadKey
    \/ ReadFullBuffer

SpecAPI == InitAPI /\ [][NextAPI]_vars

----------------------------------------------------------------------------
\* Properties of read_full_buffer (checked under SpecAPI)

\* The state right after a call of read_full_buffer returned.
JustRead == op = "read_full_buffer"

\* The first result raw slots, in scan order.
RawPrefix == [i \in 1..result |-> <<code_buffer[i], analog_buffer[i]>>]

\* The claimed filter: not excluded and, under strip, intensity not 0.
FilterByIntensity(sl) == sl[1] \notin excluded /\ (strip => sl[2] # 0)

\* The filter of the docstring: not excluded and, under strip, code not 0.
FilterByCode(sl) == sl[1] \notin excluded /\ (strip => sl[1] # 0)

\* C1 as stated: after a read with result >= 0 the returned frame is the raw
\* prefix without the excluded codes and, under strip, without the slots of
\* intensity 0.
C1_Original ==
    (JustRead /\ result >= 0) => values = SelectSeq(RawPrefix, FilterByIntensity)

\* C1: after a read with result >= 0 the returned frame is the raw prefix, in
\* scan order, without the slots whose code is excluded and, under strip,
\* without the slots whose code is 0 (whatever their intensity).  Raw
\* [(41,0.0),(44,0.9),(0,0.0)] under strip decodes to [(41,0.0),(44,0.9)]
\* with no exclusions and to [(41,0.0)] with 44 excluded.
C1_Decode ==
    /\ (JustRead /\ result >= 0) => values = SelectSeq(RawPrefix, FilterByCode)
    /\ Collect(0, 3, <<41, 44, 0>>, <<0, 9, 0>>, {}, TRUE)
         = << <<41, 0>>, <<44, 9>> >>
    /\ Collect(0, 3, <<41, 44, 0>>, <<0, 9, 0>>, {44}, TRUE) = << <<41, 0>> >>

\* A strip read that kept a key at rest (intensity 0) and dropped a slot of
\* code 0.
C1_Witness ==
    /\ JustRead /\ strip /\ result = 2
    /\ code_buffer[1] = SCAN_CODE_ESC /\ analog_buffer[1] = 0
    /\ code_buffer[2] = 0
    /\ values = << <<SCAN_CODE_ESC, 0>> >>

\* C2 as stated: a frame returned under strip holds no slot of intensity 0.
C2_Original ==
    (JustRead /\ strip) => \A i \in 1..Len(values) : values[i][2] # 0

\* C2: a frame returned under strip holds no slot whose code is 0 (a slot
\* with a non-zero code and intensity 0 is kept).
C2_StripCodes ==
    (JustRead /\ strip) => \A i \in 1..Len(values) : values[i][1] # 0

\* A strip read whose raw prefix held a slot of code 0 next to a kept slot.
C2_Witness ==
    /\ JustRead /\ strip /\ result >= 2
    /\ \E i \in 1..result : code_buffer[i] = 0
    /\ values # <<>>

\* C6: a read whose SDK result is negative returns the empty frame and prints
\* the warning, whatever the exclusion set and the strip flag; the call
\* returns to its caller.
C6_ErrorRead ==
    (JustRead /\ result < 0) => (values = <<>> /\ warned /\ pc = "api")

\* An error read with a non-empty exclusion set and strip off.
C6_Witness == JustRead /\ result < 0 /\ excluded # {} /\ ~strip

\* C8: a returned frame holds no slot whose code is in the exclusion set of
\* the moment of the read.
C8_NoExcluded ==
    JustRead => \A i \in 1..Len(values) : values[i][1] \notin excluded

\* A read under a non-empty exclusion set that met an excluded code and
\* still returned a slot.
C8_Witness ==
    /\ JustRead /\ result >= 2 /\ excluded # {}
    /\ \E i \in 1..result : code_buffer[i] \in excluded
    /\ values # <<>>

\* a is b with some elements left out, order kept.
RECURSIVE IsSubseq(_, _)
IsSubseq(a, b) ==
    IF a = <<>> THEN TRUE
    ELSE IF b = <<>> THEN FALSE
    ELSE IF a[1] = b[1] THEN IsSubseq(Tail(a), Tail(b))
    ELSE IsSubseq(a, Tail(b))

\* C9: the frame of a read with result >= 0 is an order-preserving
\* subsequence of the first result raw slots, so no longer than
\* min(result, buffer_size); the frame of an error read is empty.
C9_Subsequence ==
    /\ (JustRead /\ result >= 0) =>
          /\ IsSubseq(values, RawPrefix)
          /\ Len(values) <= Min(result, buffer_size)
    /\ (JustRead /\ result < 0) => values = <<>>

\* A read that filled the buffer and kept two different slots.
C9_Witness ==
    /\ JustRead /\ result = buffer_size
    /\ Len(values) >= 2 /\ values[1] # values[2]

----------------------------------------------------------------------------
\* Properties of the recording script (checked under Spec)

\* The frame holds a slot with the code.
Contains(frame, code) == code \in {frame[i][1] : i \in 1..Len(frame)}

\* The states of the polling loop.
WaitingForStart == pc = "wait_for_key"
Recording == pc = "recording" /\ logging
Stopped == (pc = "recording" /\ ~logging) \/ pc \in {"close", "done"}

\* The row of a read that observed nothing.
EmptyRow == [key_count |-> <<"0">>, payload |-> <<>>]

\* C3: the pass of the loop whose frame holds <Esc> appends exactly the row
\* of that frame and stops the loop; once stopped, no row is appended and
\* no buffer is read.
C3_StopFramePersisted ==
    [][ /\ (Recording /\ Contains(values', SCAN_CODE_ESC)) =>
             (log' = Append(log, Row(values')) /\ Stopped')
        /\ Stopped => (log' = log /\ UNCHANGED readVars /\ Stopped')
      ]_vars

\* Stopped after two passes, the last row being the row of the <Esc> frame.
C3_Witness ==
    /\ Stopped /\ Len(log) = 2
    /\ Contains(values, SCAN_CODE_ESC)
    /\ log[2] = Row(values)

\* C4: while recording and once stopped, rows equals the number of rows in
\* the file and the number of passes made; the count printed at the end is
\* the number of passes, the one that saw <Esc> included.
C4_RowCount ==
    /\ (Recording \/ Stopped) => (rows = Len(log) /\ rows = iterations)
    /\ pc \in {"close", "done"} => reported = iterations

\* The count 2 printed after a second pass that saw <Esc>.
C4_Witness ==
    /\ pc = "done" /\ reported = 2 /\ iterations = 2
    /\ Contains(values, SCAN_CODE_ESC)

\* C5: until wait_for_key has read a frame holding <Space> the file is not
\* opened and holds no row, and no pass of wait_for_key writes to it.
C5_NothingBeforeStart ==
    /\ [](~start_seen => (logfile = "unopened" /\ log = <<>>))
    /\ [][WaitingForStart => UNCHANGED <<log, logfile>>]_vars

\* Still waiting after a read that returned keys, nothing written.
C5_Witness ==
    /\ WaitingForStart /\ JustRead /\ values # <<>>
    /\ ~start_seen /\ logfile = "unopened" /\ log = <<>>

\* C7: a recording pass whose read fails still appends one row (count 0,
\* empty payload) and stays in Recording; a waiting pass whose read fails
\* stays in WaitingForStart and writes nothing.
C7_ErrorContinues ==
    [][ /\ (Recording /\ rows' # rows /\ result' < 0) =>
             (log' = Append(log, EmptyRow) /\ Recording')
        /\ (WaitingForStart /\ result' < 0) =>
             (WaitingForStart' /\ UNCHANGED <<log, logfile>>)
      ]_vars

\* Recording goes on after a failed read that followed a good pass.
C7_Witness ==
    /\ Recording /\ result < 0 /\ warned
    /\ Len(log) = 2 /\ log[2] = EmptyRow /\ log[1] # EmptyRow

\* C10: a recording pass stops the loop exactly when its frame holds <Esc>,
\* and the script leaves the loop only when stopped.
C10_OnlyStopCode ==
    [][ /\ (Recording /\ rows' # rows) =>
             (Stopped' <=> Contains(values', SCAN_CODE_ESC))
        /\ (Recording /\ rows' = rows) => Recording'
      ]_vars

\* Stopped by an <Esc> that was not the first slot, after a pass without it.
C10_Witness ==
    /\ Stopped /\ Len(log) = 2 /\ Len(values) = 2
    /\ values[1][1] # SCAN_CODE_ESC /\ values[2][1] = SCAN_CODE_ESC

----------------------------------------------------------------------------
\* Properties of the script's start, end and rows (checked under Spec)

\* C11 as stated: the count is printed only once the log is closed.
C11_Original == reported # -1 => logfile = "closed"

\* C11: the log is opened only after the start key was seen, rows are
\* written only to an opened log, the count is printed only after the loop
\* stopped, and the log is closed only after the count was printed (the
\* print is the last statement inside the with block).
C11_Order ==
    /\ logfile # "unopened" => start_seen
    /\ iterations > 0 => logfile # "unopened"
    /\ reported # -1 => (~logging /\ Contains(values, SCAN_CODE_ESC)
                          /\ reported = Len(log))
    /\ logfile = "closed" => reported # -1

\* The count printed, the log still open.
C11_Witness == pc = "close" /\ reported >= 1 /\ logfile = "open"

\* C13: a buffer is read, a log opened or a file made only after the SDK
\* initialised; a failed load ends the process and a failed initialisation
\* raises, both before any of these.
C13_NoReadBeforeInit ==
    /\ (op # "none" \/ logfile # "unopened" \/ files # <<>> \/ log # <<>>)
          => sdk_status = "ok"
    /\ sdk_status = "load_failed" => pc = "exit"
    /\ sdk_status = "init_failed" => pc = "raised"
    /\ pc \in {"exit", "raised"} => sdk_status \in {"load_failed", "init_failed"}

\* The constructor raised on the status of the SDK, nothing read or opened.
C13_Witness ==
    /\ pc = "raised" /\ sdk_status = "init_failed"
    /\ op = "none" /\ logfile = "unopened"

\* int(token) for a token of digits; -1 for anything else.
DigitVal(c) == CASE c = "0" -> 0 [] c = "1" -> 1 [] c = "2" -> 2 [] c = "3" -> 3
                 [] c = "4" -> 4 [] c = "5" -> 5 [] c = "6" -> 6 [] c = "7" -> 7
                 [] c = "8" -> 8 [] c = "9" -> 9 [] OTHER -> -1

RECURSIVE ParseIntFrom(_, _)
ParseIntFrom(tok, acc) ==
    IF tok = <<>> THEN acc
    ELSE IF DigitVal(tok[1]) < 0 THEN -1
    ELSE ParseIntFrom(Tail(tok), 10 * acc + DigitVal(tok[1]))

ParseInt(tok) == IF tok = <<>> THEN -1 ELSE ParseIntFrom(tok, 0)

\* float(token), in the tenths of the model, for the two values a slot
\* holds; -1 for anything else.
ParseFloat(tok) ==
    IF tok = <<"0", ".", "0">> THEN 0
    ELSE IF tok = <<"0", ".", "8", "9", "9", "9", "9", "9", "9", "7", "6", "1",
                    "5", "8", "1", "4", "2", "1">> THEN 9
    ELSE -1

\* payload.split('|'): the empty string splits into one empty token.
RECURSIVE SplitFrom(_, _)
SplitFrom(cs, cur) ==
    IF cs = <<>> THEN <<cur>>
    ELSE IF cs[1] = "|" THEN <<cur>> \o SplitFrom(Tail(cs), <<>>)
    ELSE SplitFrom(Tail(cs), Append(cur, cs[1]))

Split(cs) == SplitFrom(cs, <<>>)

\* Tokens 2i-1 and 2i read as the i-th (code, intensity) pair.
Pairs(toks) ==
    [i \in 1..(Len(toks) \div 2) |->
        <<ParseInt(toks[2 * i - 1]), ParseFloat(toks[2 * i])>>]

\* C14: the row written for a frame has a key-count field that reads as the
\* length of the frame; for a non-empty frame its payload splits at the
\* pipes into twice that many values, which paired in order read as the
\* slots of the frame; for the empty frame the payload is empty.
C14_RoundTrip ==
    (pc \in {"recording", "close", "done"} /\ log # <<>>) =>
        LET row == log[Len(log)]
            toks == Split(row.payload)
        IN  /\ ParseInt(row.key_count) = Len(values)
            /\ values = <<>> => row.payload = <<>>
            /\ values # <<>> => (Len(toks) = 2 * Len(values) /\ Pairs(toks) = values)

\* A row written for a frame of two different slots.
C14_Witness ==
    /\ pc = "recording" /\ log # <<>>
    /\ Len(values) = 2 /\ values[1] # values[2]
    /\ values[1][2] # values[2][2]

\* The size the loop remembers: -1 before the first pass, then the
\* key-count of the row written last.
PrevSize == IF log = <<>> THEN -1 ELSE ParseInt(log[Len(log)].key_count)

\* C17: a recording pass prints the change notice exactly when the size of
\* its frame differs from the size of the frame of the pass before (-1
\* before the first pass), and appends the row of its frame, and only that,
\* either way.
C17_ChangeNotice ==
    [][ (Recording /\ rows' # rows) =>
            /\ notified' <=> (Len(values') # PrevSize)
            /\ last_keys_pressed' = Len(values')
            /\ log' = Append(log, Row(values'))
      ]_vars

\* A second pass with the size of the first: no notice, the row written.
C17_Witness ==
    /\ Recording /\ Len(log) = 2 /\ ~notified
    /\ log[2].key_count = log[1].key_count

----------------------------------------------------------------------------
\* Properties of the log files (checked under SpecSessions)

\* C15: opening the log of a run leaves the rows of every file already on
\* the disk as they were.
C15_NoOverwrite ==
    [][pc = "open" => \A n \in DOMAIN files : files'[n] = files[n]]_vars

----------------------------------------------------------------------------
\* Properties of the reused buffers (checked under SpecAPI)

\* The buffers of a new instance after the SDK wrote the given slots.
FreshCodes == SdkWrite(create_string_buffer(buffer_size),
                       [i \in 1..result |-> code_buffer[i]])
FreshAnalogs == SdkWrite(create_string_buffer(buffer_size),
                         [i \in 1..result |-> analog_buffer[i]])

\* C16: whatever earlier reads left in the buffers, a read returns the frame
\* a new instance returns for the same count, the same first slots, the
\* same exclusion set and the same strip flag.
C16_Deterministic ==
    (JustRead /\ result >= 0) =>
        values = Collect(0, result, FreshCodes, FreshAnalogs, excluded, strip)

\* A read that returned a slot from buffers an earlier read had left filled
\* beyond the count of this one.
C16_Witness ==
    /\ JustRead /\ stale /\ result >= 1 /\ values # <<>>

\* C18: after every read both buffers are zero beyond the slots this read
\* reported, and every slot of the returned frame is one of those slots.
C18_NoStaleSlot ==
    JustRead =>
        /\ \A i \in 1..buffer_size :
              i > result => (code_buffer[i] = 0 /\ analog_buffer[i] = 0)
        /\ \A j \in 1..Len(values) : \E i \in 1..result : values[j] = RawPrefix[i]

\* A read that reported fewer slots than the buffers held from before, and
\* dropped none of them.
C18_Witness ==
    /\ JustRead /\ stale
    /\ result >= 1 /\ result < buffer_size
    /\ Len(values) = result

----------------------------------------------------------------------------
\* Properties of the calls (checked under SpecCalls)

C19_OnlySetExcludedKeys ==
    [][ /\ pc = "set_excluded_keys" => excluded' = {arg[i] : i \in 1..Len(arg)}
        /\ pc # "set_excluded_keys" => excluded' = excluded
      ]_vars

\* A call with the list [44] about to replace the set {0} an earlier call
\* made.
C19_Witness ==
    /\ pc = "set_excluded_keys" /\ op = "set_excluded_keys"
    /\ arg = <<SCAN_CODE_SPACE>> /\ excluded = {0}

\* C20: a pass of wait_for_key(code) returns exactly when the frame it
\* decoded holds code; it does so whenever the read reports code and code
\* is neither 0 nor excluded; with code 0 or excluded no pass returns.
C20_WaitReturns ==
    [][ pc = "wait_for_key_api" =>
          /\ pc' \in {"api", "wait_for_key_api"}
          /\ pc' = "api" <=> Contains(values', arg[1])
          /\ (/\ arg[1] # 0
              /\ arg[1] \notin excluded
              /\ \E i \in 1..result' : code_buffer'[i] = arg[1]) => pc' = "api"
          /\ (arg[1] = 0 \/ arg[1] \in excluded) => pc' = "wait_for_key_api"
      ]_vars

\* Still waiting for an excluded code after a read that reported it.
C20_Witness ==
    /\ pc = "wait_for_key_api" /\ JustRead
    /\ arg[1] # 0 /\ arg[1] \in excluded
    /\ \E i \in 1..result : code_buffer[i] = arg[1]

====
